---- MODULE Spec2Model ----
(***************************************************************************)
(* Model of the order automation of shopvox-scrape-api:                    *)
(*   - the two vendor allocators (sanmar.add_requested_sizes and           *)
(*     s_and_s._fill_sizes_across_warehouses) over a stock grid, and the   *)
(*     commit that follows them,                                           *)
(*   - the status decision of add_to_cart.process_order,                   *)
(*   - the order tasks that add_to_cart starts under its semaphore,        *)
(*   - the merge of scraped size rows in extract_line_items,               *)
(*   - the semaphore blocks of add_to_cart, clean_not_order_yet_tags and   *)
(*     get_so_details_parallel, with the pages their tasks open and use,   *)
(*   - the row-materialization loops of get_sales_orders_urls and          *)
(*     extract_line_items,                                                 *)
(*   - the shared browser context behind get_ctx,                          *)
(*   - _normalize_size_label on any labels,                                *)
(*   - the answers of GET /to-order and of the job-export endpoints.       *)
(***************************************************************************)
EXTENDS Integers, Sequences, FiniteSets, TLC

VARIABLES
    sizes,      \* allocation input: List[SizeItem] of one item
    grid,       \* allocation input: the vendor page's stock grid
    alloc,      \* the record of one allocation run (vendor "none" before it)
    cin,        \* classifier input: processed_items, all_out_of_stock, skipped_custom, any_added_overall
    cstatus,    \* classifier output ("none" before the decision)
    orders,     \* add_to_cart's argument: List[SalesOrder]
    task,       \* per order, the state of its process_order task
    sem,        \* free permits of asyncio.Semaphore(max_concurrency)
    call,       \* the call that started the tasks: [fn, max_concurrency, state, result]
    dom_rows,   \* extract_line_items: the texts of the size rows found in the page's cards
    extracted,  \* extract_line_items: [state, items], items the returned list
    poll,       \* a row-materialization loop: its locals and the rows the page shows
    boot,       \* the globals _pw, _ctx, _lock and the calls of get_ctx and of the initializer
    size_labels, \* size labels handed to _normalize_size_label
    size_keys,  \* [state, keys, again]: their size keys, and the keys of those keys
    http        \* a request to an endpoint: [endpoint, pc, so_urls, result, status, body]

allocVars == <<sizes, grid, alloc>>
classVars == <<cin, cstatus>>
orderVars == <<orders, task, sem, call>>
mergeVars == <<dom_rows, extracted>>
serviceVars == <<poll, boot, size_labels, size_keys, http>>
vars == <<sizes, grid, alloc, cin, cstatus, orders, task, sem, call, dom_rows, extracted,
          poll, boot, size_labels, size_keys, http>>

None == "none"

(***************************************************************************)
(* Bounds                                                                  *)
(***************************************************************************)
MaxWork == 3        \* demand entries plus warehouse rows of one allocation
MaxList == 2        \* entries of a classifier input list
MaxOrders == 2      \* orders of one add_to_cart call
MaxDomRows == 3     \* size rows of one scraped page
MaxTasks == 2       \* tasks started by one call, when the permits vary
MaxPermits == 1     \* max_concurrency of a call, when the permits vary
MaxCallers == 3     \* concurrent calls of get_ctx and of the initializer
MaxLabels == 2      \* labels normalized in one run
MaxSos == 3         \* sales orders of the to-order view
MaxItems == 2       \* line items of a sales order
MaxRows == 2        \* rows a page shows at a time
MaxChanges == 3     \* times a page changes its rows during a loop

\* add_to_cart(orders, max_concurrency=3)
max_concurrency == 3

(***************************************************************************)
(* Values                                                                  *)
(***************************************************************************)
\* schemas.SizeItem.quantity is a float: quantity = whole + (1/2 if half).
Qty(w, h) == [whole |-> w, half |-> h]

\* int(s.quantity): truncation toward zero (half only occurs with whole >= 0)
PyInt(q) == q.whole

\* twice the float value, as an integer
Halves(q) == 2 * q.whole + (IF q.half THEN 1 ELSE 0)

SizeItem(s, q) == [size |-> s, quantity |-> q]

Min(a, b) == IF a <= b THEN a ELSE b

\* str.strip()
Strip(s) ==
    CASE s = " 2xl " -> "2xl"
      [] s = " " -> ""
      [] s = "SanMar " -> "SanMar"
      [] s = "sanmar " -> "sanmar"
      [] OTHER -> s

\* str.upper()
Upper(s) ==
    CASE s = "l" -> "L"
      [] s = "2xl" -> "2XL"
      [] s = " 2xl " -> " 2XL "
      [] s = "Color" -> "COLOR"
      [] s = "Small" -> "SMALL"
      [] s = "xl" -> "XL"
      [] s = "qty" -> "QTY"
      [] OTHER -> s

\* str.lower()
Lower(s) ==
    CASE s = "L" -> "l"
      [] s = "2XL" -> "2xl"
      [] s = "XXL" -> "xxl"
      [] s = "M" -> "m"
      [] s = "Color" -> "color"
      [] s = "SanMar" -> "sanmar"
      [] s = "SanMar " -> "sanmar "
      [] s = "S&S Activewear" -> "s&s activewear"
      [] s = "Etsy" -> "etsy"
      [] OTHER -> s

\* str.casefold(): on the ASCII labels of the model it is lower()
Casefold(s) == Lower(s)

(***************************************************************************)
(* A stock cell of the page: one (warehouse row, size column) slot.        *)
(*   avail : the stock number shown in the cell                            *)
(*   input : "enabled" | "disabled" | "none" (no quantity input)           *)
(*   probe : how the disabled-state queries answer: "ok" (is_disabled      *)
(*           returns), "attr" (is_disabled throws, get_attribute returns), *)
(*           "throws" (both throw)                                         *)
(*   fill  : TRUE iff Locator.fill returns normally; a disabled input      *)
(*           never passes fill's actionability wait                        *)
(***************************************************************************)
Cell(a, i, p, f) == [avail |-> a, input |-> i, probe |-> p, fill |-> f]

Committable(c) == c.input = "enabled"

Avails == {0, 3, 10}

CellSet ==
    {Cell(a, "enabled", "ok", TRUE) : a \in Avails}
    \cup {Cell(3, "enabled", "ok", FALSE),
          Cell(3, "disabled", "ok", FALSE),
          Cell(3, "disabled", "throws", FALSE),
          Cell(3, "none", "ok", FALSE)}

\* the cells of the second size column of a two-column grid
SideCells == {Cell(1, "enabled", "ok", TRUE)}

Headers == {<<"L">>, <<"l", "XXL">>, <<"XXL", " 2xl ">>}

RowsFor(h) ==
    IF Len(h) = 1 THEN {<<c>> : c \in CellSet}
    ELSE {<<c, d>> : c \in CellSet, d \in SideCells}

\* the grids of n warehouse rows
Grids(n) == UNION {{[labels |-> h, rows |-> rs] : rs \in [1..n -> RowsFor(h)]} : h \in Headers}

DemandEntries ==
    {SizeItem("L", Qty(5, FALSE)), SizeItem("L", Qty(2, TRUE)),
     SizeItem("L", Qty(0, FALSE)), SizeItem("L", Qty(-1, FALSE)),
     SizeItem("l", Qty(1, FALSE)), SizeItem("2XL", Qty(4, FALSE)),
     SizeItem("M", Qty(0, TRUE)), SizeItem("OSFA", Qty(1, FALSE)),
     SizeItem("XXL", Qty(1, FALSE))}

\* the demand lists of n entries
Demands(n) == [1..n -> DemandEntries]

(***************************************************************************)
(* sanmar.py                                                               *)
(***************************************************************************)
\* the alt table of normalize_size, as <<key, synonyms>> pairs
alt ==
    {<<"XS", {"XSM", "X-SMALL"}>>,
     <<"S", {"SM", "SMALL"}>>,
     <<"M", {"MED", "MEDIUM"}>>,
     <<"L", {"LG", "LARGE"}>>,
     <<"XL", {"X-LARGE", "XLG"}>>,
     <<"2XL", {"XXL", "2X-LARGE"}>>,
     <<"3XL", {"XXXL", "3X-LARGE"}>>,
     <<"4XL", {"XXXXL", "4X-LARGE"}>>,
     <<"5XL", {"XXXXXL", "5X-LARGE"}>>,
     <<"6XL", {"XXXXXXL", "6X-LARGE"}>>,
     <<"7XL", {"XXXXXXXL", "7X-LARGE"}>>,
     <<"8XL", {"XXXXXXXXL", "8X-LARGE"}>>,
     <<"9XL", {"XXXXXXXXXL", "9X-LARGE"}>>,
     <<"ONE SIZE", {"OS", "OSFA"}>>,
     <<"OSFA", {"ONE SIZE", "OS"}>>}

\* the set `variants` of normalize_size; the order of the list made of it
\* is the set's iteration order
normalize_size(label) ==
    LET u == Upper(Strip(label))
    IN  {u} \cup UNION {{p[1]} \cup p[2] : p \in {q \in alt : u = q[1] \/ u \in q[2]}}

\* grid positions in the order build_size_inputs_by_warehouse walks them:
\* row by row, and inside a row column by column
Positions(g) ==
    LET C == Len(g.labels)
    IN  [i \in 1..(Len(g.rows) * C) |-> <<((i - 1) \div C) + 1, ((i - 1) % C) + 1>>]

CellAt(g, p) == g.rows[p[1]][p[2]]

\* size_to_entries before the single-column aliasing
size_entries_raw(g) ==
    LET keyOf(p) == Upper(Strip(Strip(g.labels[p[2]])))
        recorded(p) == Strip(g.labels[p[2]]) # "" /\ CellAt(g, p).input # "none"
        all == Positions(g)
        keys == {keyOf(all[i]) : i \in {j \in DOMAIN all : recorded(all[j])}}
    IN  [k \in keys |-> SelectSeq(all, LAMBDA p : recorded(p) /\ keyOf(p) = k)]

\* size_to_entries as returned: a page with one size column also answers
\* to "ONE SIZE" and "OSFA"
build_size_inputs_by_warehouse(g) ==
    LET e == size_entries_raw(g)
    IN  IF Cardinality(DOMAIN e) = 1
        THEN LET only_key == CHOOSE k \in DOMAIN e : TRUE
             IN  IF only_key \notin {"ONE SIZE", "OSFA"}
                 THEN [k \in (DOMAIN e) \cup {"ONE SIZE", "OSFA"} |-> e[only_key]]
                 ELSE e
        ELSE e

\* variant: the whole stock of the cell is typed, whatever is still needed
to_take_full(available_qty, remaining) == available_qty

\* the candidates of a label that are keys of size_entries (line 218 takes
\* the first of them in list order)
present_keys(size_entries, label) == normalize_size(label) \cap DOMAIN size_entries

\* the outcomes of line 218 for the labels of a demand list: per label one
\* of its present candidates, None when there is none
size_key_choices(size_entries, ss) ==
    {pk \in [{ss[d].size : d \in DOMAIN ss} -> (DOMAIN size_entries) \cup {None}] :
        \A l \in DOMAIN pk :
            IF present_keys(size_entries, l) = {} THEN pk[l] = None
            ELSE pk[l] \in present_keys(size_entries, l)}

\* to_take = min(available_qty, remaining)
to_take(available_qty, remaining) == Min(available_qty, remaining)

\* the disabled test of lines 230-238: TRUE iff the cell is skipped as disabled
sanmar_skip_disabled(c) == c.probe # "throws" /\ c.input = "disabled"

\* does Locator.fill on this cell return normally
FillReturns(c) == c.fill /\ c.input = "enabled"

\* a call of Locator.fill: entry d, pool position pos, grid cell p, quantity n
FillCall(d, pos, p, c, n, before) ==
    [d |-> d, pos |-> pos, cell |-> p, avail |-> c.avail, input |-> c.input,
     qty |-> n, before |-> before]

\* variant: the fill is not counted against the demand
credit_none(remaining, n) == remaining

\* remaining -= to_take
credit(remaining, n) == remaining - n

\* the warehouse loop of one demand entry (lines 225-253), from cell j on
RECURSIVE sanmar_scan(_, _, _, _, _)
sanmar_scan(g, cells, j, d, st) ==
    IF j > Len(cells) \/ st.remaining <= 0 THEN st
    ELSE LET c == CellAt(g, cells[j])
         IN  IF sanmar_skip_disabled(c) THEN sanmar_scan(g, cells, j + 1, d, st)
             ELSE IF c.avail <= 0 THEN sanmar_scan(g, cells, j + 1, d, st)
             ELSE LET n == to_take(c.avail, st.remaining)
                      fc == FillCall(d, j, cells[j], c, n, st.remaining)
                  IN  IF FillReturns(c)
                      THEN sanmar_scan(g, cells, j + 1, d,
                               [st EXCEPT !.issued = Append(@, fc),
                                          !.fills = Append(@, fc),
                                          !.added_any = TRUE,
                                          !.remaining = credit(@, n)])
                      ELSE sanmar_scan(g, cells, j + 1, d,
                               [st EXCEPT !.issued = Append(@, fc)])

\* variant: the matched column key is reported
sanmar_oos_label_key(s, size_key) == size_key

\* what the oos list receives for a demand entry
sanmar_oos_label(s, size_key) == s.size

Entry(d, s, key, cells, remaining, reported, skipped) ==
    [d |-> d, size |-> s.size, quantity |-> s.quantity, key |-> key, cells |-> cells,
     remaining |-> remaining, reported |-> reported, skipped |-> skipped]

\* the loop over the requested sizes (lines 208-256), from entry d on
RECURSIVE sanmar_sizes(_, _, _, _, _, _)
sanmar_sizes(g, size_entries, pk, ss, d, st) ==
    IF d > Len(ss) THEN st
    ELSE LET s == ss[d]
         IN  IF PyInt(s.quantity) <= 0
             THEN sanmar_sizes(g, size_entries, pk, ss, d + 1,
                      [st EXCEPT !.entries = Append(@, Entry(d, s, None, <<>>, 0, FALSE, TRUE))])
             ELSE LET size_key == pk[s.size]
                  IN  IF size_key = None
                      THEN sanmar_sizes(g, size_entries, pk, ss, d + 1,
                               [st EXCEPT !.oos = Append(@, s.size),
                                          !.entries = Append(@, Entry(d, s, None, <<>>,
                                                          PyInt(s.quantity), TRUE, FALSE))])
                      ELSE LET cells == size_entries[size_key]
                               r == sanmar_scan(g, cells, 1, d,
                                        [st EXCEPT !.remaining = PyInt(s.quantity)])
                               rep == r.remaining > 0
                           IN  sanmar_sizes(g, size_entries, pk, ss, d + 1,
                                   [r EXCEPT !.oos = IF rep THEN Append(@, sanmar_oos_label(s, size_key))
                                                     ELSE @,
                                             !.entries = Append(@, Entry(d, s, size_key, cells,
                                                             r.remaining, rep, FALSE))])

\* clicks counts the click calls on the add-to-cart button; commit_raised
\* is TRUE when the commit step ended with an exception
InitRun(v) ==
    [vendor |-> v, added_any |-> FALSE, oos |-> <<>>, remaining |-> 0,
     issued |-> <<>>, fills |-> <<>>, entries |-> <<>>, raised |-> FALSE,
     clicks |-> 0, commit_raised |-> FALSE]

\* add_requested_sizes up to the commit: the run record carries the returned
\* (added_any, oos_sizes) and the fill calls made on the way
add_requested_sizes(g, pk, ss) ==
    sanmar_sizes(g, build_size_inputs_by_warehouse(g), pk, ss, 1, InitRun("sanmar"))

\* the add-to-cart button of the page: "ok" (there, and click returns),
\* "absent" (not in the page), "timeout" (click raises the TimeoutError that
\* s_and_s.process_item catches, a second click returns), "throws" (click
\* raises another error)
Buttons == {"ok", "absent", "timeout", "throws"}

\* lines 258-268: the button is awaited and clicked once when added_any
sanmar_commit(r, b) ==
    IF ~r.added_any THEN r
    ELSE IF b = "absent" THEN [r EXCEPT !.commit_raised = TRUE]
    ELSE IF b = "ok" THEN [r EXCEPT !.clicks = @ + 1]
    ELSE [r EXCEPT !.clicks = @ + 1, !.commit_raised = TRUE]

(***************************************************************************)
(* s_and_s.py                                                              *)
(***************************************************************************)
\* _get_size_order: the stripped, non-empty header texts other than "color"
RECURSIVE get_size_order(_)
get_size_order(labels) ==
    IF labels = <<>> THEN <<>>
    ELSE LET s == Strip(Head(labels))
             rest == get_size_order(Tail(labels))
         IN  IF s # "" /\ Lower(s) # "color" THEN <<s>> \o rest ELSE rest

\* list.index
IndexOf(seq, x) == CHOOSE i \in DOMAIN seq : seq[i] = x /\ \A j \in 1..(i - 1) : seq[j] # x

InSeq(seq, x) == \E i \in DOMAIN seq : seq[i] = x

\* the test of line 73: is the requested size a column of the grid
ss_size_found(size_order, size) == InSeq(size_order, size)

\* the row loop of one demand entry (lines 79-103), from row r on
RECURSIVE ss_scan(_, _, _, _, _)
ss_scan(g, col, r, d, st) ==
    IF r > Len(g.rows) THEN st
    ELSE LET c == g.rows[r][col]
         IN  IF c.avail <= 0 \/ st.remaining <= 0 THEN ss_scan(g, col, r + 1, d, st)
             ELSE LET take == Min(st.remaining, c.avail)
                      fc == FillCall(d, r, <<r, col>>, c, take, st.remaining)
                  IN  IF c.input = "none" THEN ss_scan(g, col, r + 1, d, st)
                      ELSE IF ~FillReturns(c)
                      THEN [st EXCEPT !.issued = Append(@, fc), !.raised = TRUE]
                      ELSE LET st2 == [st EXCEPT !.issued = Append(@, fc),
                                                 !.fills = Append(@, fc),
                                                 !.remaining = credit(@, take),
                                                 !.added_any = TRUE]
                           IN  IF st2.remaining = 0 THEN st2
                               ELSE ss_scan(g, col, r + 1, d, st2)

\* the loop over the requested sizes (lines 69-107), from entry d on
RECURSIVE ss_sizes(_, _, _, _, _)
ss_sizes(g, size_order, ss, d, st) ==
    IF d > Len(ss) \/ st.raised THEN st
    ELSE LET si == ss[d]
             requested == PyInt(si.quantity)
         IN  IF ~ss_size_found(size_order, si.size)
             THEN ss_sizes(g, size_order, ss, d + 1,
                      [st EXCEPT !.oos = Append(@, si.size),
                                 !.entries = Append(@, Entry(d, si, None, <<>>,
                                                 requested, TRUE, FALSE))])
             ELSE LET col_index == IndexOf(size_order, si.size)
                      cells == [r \in 1..Len(g.rows) |-> <<r, col_index>>]
                      r == ss_scan(g, col_index, 1, d, [st EXCEPT !.remaining = requested])
                      rep == r.remaining > 0
                  IN  IF r.raised
                      THEN [r EXCEPT !.entries = Append(@, Entry(d, si, si.size, cells,
                                                         r.remaining, FALSE, FALSE))]
                      ELSE ss_sizes(g, size_order, ss, d + 1,
                               [r EXCEPT !.oos = IF rep THEN Append(@, si.size) ELSE @,
                                         !.entries = Append(@, Entry(d, si, si.size, cells,
                                                         r.remaining, rep, FALSE))])

\* _fill_sizes_across_warehouses; raised = TRUE when a fill threw, and the
\* function then returns nothing
fill_sizes_across_warehouses(g, ss) ==
    IF Len(g.rows) = 0
    THEN [InitRun("ss") EXCEPT
              !.oos = [d \in 1..Len(ss) |-> ss[d].size],
              !.entries = [d \in 1..Len(ss) |-> Entry(d, ss[d], None, <<>>,
                                                    PyInt(ss[d].quantity), TRUE, FALSE)]]
    ELSE ss_sizes(g, get_size_order(g.labels), ss, 1, InitRun("ss"))

\* process_item, lines 124-133: the commit after the allocation returned
ss_commit(r, b) ==
    IF r.raised \/ ~r.added_any THEN r
    ELSE IF b = "absent" THEN r
    ELSE IF b = "ok" THEN [r EXCEPT !.clicks = @ + 1]
    ELSE IF b = "timeout" THEN [r EXCEPT !.clicks = @ + 2]
    ELSE [r EXCEPT !.clicks = @ + 1, !.commit_raised = TRUE]

(***************************************************************************)
(* main.py: add_to_cart                                                    *)
(***************************************************************************)
\* _normalize_store
normalize_store(s) == Casefold(Strip(s))

\* the keys of STORE_PROCESSORS (and of STORE_HOMES)
STORE_PROCESSORS == {"sanmar", "s&s activewear"}

sanmar_key == "sanmar"

\* the order of the lower-cased store names under Python's string comparison
StoreRank(l) ==
    CASE l = "custom" -> 1
      [] l = "etsy" -> 2
      [] l = "s&s activewear" -> 3
      [] l = "sanmar" -> 4
      [] l = "sanmar " -> 5

\* insert x into a list sorted by descending key, after the entries of equal key
RECURSIVE InsertDesc(_, _)
InsertDesc(sorted, x) ==
    IF sorted = <<>> THEN <<x>>
    ELSE IF StoreRank(Lower(x.store)) > StoreRank(Lower(Head(sorted).store))
         THEN <<x>> \o sorted
         ELSE <<Head(sorted)>> \o InsertDesc(Tail(sorted), x)

\* order.items.sort(key=lambda it: it.store.lower(), reverse=True): stable
RECURSIVE sort_items(_)
sort_items(items) ==
    IF items = <<>> THEN <<>>
    ELSE InsertDesc(sort_items(SubSeq(items, 1, Len(items) - 1)), items[Len(items)])

\* the keys of by_store in insertion order
RECURSIVE store_keys(_)
store_keys(items) ==
    IF items = <<>> THEN <<>>
    ELSE LET ks == store_keys(SubSeq(items, 1, Len(items) - 1))
             k == normalize_store(items[Len(items)].store)
         IN  IF InSeq(ks, k) THEN ks ELSE Append(ks, k)

\* by_store: the groups in insertion order, the items of a group in list order
by_store(items) ==
    LET ks == store_keys(items)
    IN  [g \in 1..Len(ks) |->
            [key |-> ks[g],
             group |-> SelectSeq(items, LAMBDA it : normalize_store(it.store) = ks[g])]]

RECURSIVE Flatten(_)
Flatten(groups) ==
    IF groups = <<>> THEN <<>> ELSE Head(groups).group \o Flatten(Tail(groups))

\* which groups count as other_items
is_other(k) == k # sanmar_key

\* other_items = [it for k, group in by_store.items() if k != sanmar_key for it in group]
other_items(groups) == Flatten(SelectSeq(groups, LAMBDA g : is_other(g.key)))

\* the items the loop of lines 335-345 hands to a processor, in loop order
routed_items(groups) == Flatten(SelectSeq(groups, LAMBDA g : g.key \in STORE_PROCESSORS))

\* the (anyAdded, outOfStockSizes) a processor returns for an item on a page
process_item(store_key, g, pk, b, it) ==
    IF store_key = sanmar_key THEN sanmar_commit(add_requested_sizes(g, pk, it.sizes), b)
    ELSE ss_commit(fill_sizes_across_warehouses(g, it.sizes), b)

\* what line 344 keeps of the processor's result: (added, oos) it folds
\* into any_added_overall and all_out_of_stock
keep_result(acc, it, r) == acc

\* variant: success is tested before partial
classify_success_first(processed_items, all_out_of_stock, skipped_custom, any_added_overall) ==
    LET has_oos == DOMAIN all_out_of_stock # {}
        has_custom == skipped_custom # <<>>
        processed_sanmar == processed_items # <<>>
    IN  IF ~processed_sanmar /\ has_custom THEN "custom_store_only"
        ELSE IF processed_sanmar /\ ~any_added_overall /\ has_oos THEN "out_of_stock"
        ELSE IF any_added_overall THEN "success"
        ELSE IF has_oos /\ any_added_overall THEN "partial"
        ELSE "no_items_added"

\* the status decision of lines 360-378
classify(processed_items, all_out_of_stock, skipped_custom, any_added_overall) ==
    LET has_oos == DOMAIN all_out_of_stock # {}
        has_custom == skipped_custom # <<>>
        processed_sanmar == processed_items # <<>>
    IN  IF ~processed_sanmar /\ has_custom THEN "custom_store_only"
        ELSE IF processed_sanmar /\ ~any_added_overall /\ has_oos THEN "out_of_stock"
        ELSE IF has_oos /\ any_added_overall THEN "partial"
        ELSE IF any_added_overall THEN "success"
        ELSE "no_items_added"

(***************************************************************************)
(* main.py: extract_line_items, from the scraped rows to the merged list   *)
(* A quantity is a float; the model holds it in thousandths, as an         *)
(* integer.  The quantities of the model are even numbers of thousandths,  *)
(* so that no sum lies half way between two hundredths.                    *)
(***************************************************************************)
\* _safe_inner_text: the stripped text
safe_inner_text(t) == Strip(t)

\* _normalize_key_text
normalize_key_text(t) == Strip(t)

\* the canonical table of _normalize_size_label
canonical(u) ==
    CASE u \in {"XSM", "X-SMALL"} -> "XS"
      [] u \in {"SM", "SMALL"} -> "S"
      [] u \in {"MED", "MEDIUM"} -> "M"
      [] u \in {"LG", "LARGE"} -> "L"
      [] u \in {"XLG", "X-LARGE"} -> "XL"
      [] u \in {"XXL", "2X-LARGE"} -> "2XL"
      [] u \in {"XXXL", "3X-LARGE"} -> "3XL"
      [] u \in {"XXXXL", "4X-LARGE"} -> "4XL"
      [] u \in {"OS", "OSFA", "ONE SIZE FITS ALL"} -> "ONE SIZE"
      [] u = "QTY" -> "qty"
      [] OTHER -> u

normalize_size_label(label) ==
    IF label = "" THEN "qty" ELSE canonical(Upper(Strip(label)))

\* variant: the store text of a row is kept as scraped
row_store_as_scraped(store) == store

\* line 664: "store": store or "Custom"
row_store(store) == IF store = "" THEN "Custom" ELSE store

\* lines 605-668: the line_items entry of one size row
line_item(dom) ==
    [part |-> safe_inner_text(dom.part),
     color |-> safe_inner_text(dom.color),
     store |-> row_store(safe_inner_text(dom.store)),
     size |-> safe_inner_text(dom.size),
     quantity |-> dom.quantity]

\* line 684: "store": store_key or "Custom"
bucket_store(store_key) == IF store_key = "" THEN "Custom" ELSE store_key

\* variant: the last quantity of a size replaces the earlier ones
sizes_map_last(prev, qty) == qty

\* line 695: _sizes_map[size_label] = prev + qty
sizes_map_add(prev, qty) == prev + qty

\* position of the bucket of a key in merged, 0 when there is none
BucketOf(merged, key) ==
    IF \E i \in DOMAIN merged : merged[i].key = key
    THEN CHOOSE i \in DOMAIN merged : merged[i].key = key
    ELSE 0

\* position of a size in a _sizes_map, 0 when it is not a key of it
SlotOf(sizes_map, size) ==
    IF \E i \in DOMAIN sizes_map : sizes_map[i].size = size
    THEN CHOOSE i \in DOMAIN sizes_map : sizes_map[i].size = size
    ELSE 0

\* lines 690-696 on one bucket; _sizes_map is a dict, kept here as the list
\* of its entries in insertion order
bucket_add(bucket, size_label, qty) ==
    LET j == SlotOf(bucket.sizes_map, size_label)
        m == IF j = 0 THEN Append(bucket.sizes_map,
                               [size |-> size_label, quantity |-> sizes_map_add(0, qty)])
             ELSE [bucket.sizes_map EXCEPT ![j].quantity = sizes_map_add(@, qty)]
    IN  [bucket EXCEPT !.sizes_map = m, !.total_quantity = @ + qty]

\* lines 673-696: merged after the rows from i on; merged is a dict, kept
\* here as the list of its values in insertion order
RECURSIVE merge_rows(_, _, _)
merge_rows(items, i, merged) ==
    IF i > Len(items) THEN merged
    ELSE LET item == items[i]
             key == <<normalize_key_text(item.part), normalize_key_text(item.color),
                      normalize_key_text(item.store)>>
             b == BucketOf(merged, key)
             with == IF b # 0 THEN merged
                     ELSE Append(merged, [key |-> key, part |-> key[1], color |-> key[2],
                                          store |-> bucket_store(key[3]),
                                          sizes_map |-> <<>>, total_quantity |-> 0])
             at == IF b # 0 THEN b ELSE Len(with)
         IN  merge_rows(items, i + 1,
                 [with EXCEPT ![at] = bucket_add(@, normalize_size_label(item.size),
                                                 item.quantity)])

\* round(x, 2) of a quantity in thousandths that is not half way
Round2(m) == ((m + 5) \div 10) * 10

\* variant: every size has the rank of an unknown size
size_sort_key_unranked(size) == 50

\* _size_sort_key
size_sort_key(size) ==
    CASE size = "XS" -> 1
      [] size = "S" -> 2
      [] size = "M" -> 3
      [] size = "L" -> 4
      [] size = "XL" -> 5
      [] size = "2XL" -> 6
      [] size = "3XL" -> 7
      [] size = "4XL" -> 8
      [] size = "ONE SIZE" -> 100
      [] size = "qty" -> 999
      [] OTHER -> 50

\* insert x into a list sorted by ascending key, after the entries of equal key
RECURSIVE InsertAsc(_, _)
InsertAsc(sorted, x) ==
    IF sorted = <<>> THEN <<x>>
    ELSE IF size_sort_key(x.size) < size_sort_key(Head(sorted).size)
         THEN <<x>> \o sorted
         ELSE <<Head(sorted)>> \o InsertAsc(Tail(sorted), x)

\* sizes.sort(key=_size_sort_key): stable
RECURSIVE sort_sizes(_)
sort_sizes(list) ==
    IF list = <<>> THEN <<>>
    ELSE InsertAsc(sort_sizes(SubSeq(list, 1, Len(list) - 1)), list[Len(list)])

\* lines 707-717: the emitted LineItem of one bucket
finalize(v) ==
    [part |-> v.part, color |-> v.color, store |-> v.store,
     total_quantity |-> Round2(v.total_quantity),
     sizes |-> sort_sizes([j \in DOMAIN v.sizes_map |->
                              [size |-> v.sizes_map[j].size,
                               quantity |-> Round2(v.sizes_map[j].quantity)]])]

\* extract_line_items on the size rows of the page (the name field of the
\* items, a copy of the first row's, is left out)
extract_line_items(doms) ==
    LET items == [i \in DOMAIN doms |-> line_item(doms[i])]
        merged == merge_rows(items, 1, <<>>)
    IN  [i \in DOMAIN merged |-> finalize(merged[i])]

DomRow(part, color, store, size, quantity) ==
    [part |-> part, color |-> color, store |-> store, size |-> size, quantity |-> quantity]

\* the size rows of the model
DomRowSet ==
    {DomRow("PC54", "Red", "SanMar", "SM", 2000),
     DomRow("PC54", "Red", "SanMar", "Small", 3000),
     DomRow("PC54", "Red", "SanMar ", "xl", 1000),
     DomRow("PC54", "Red", "SanMar", "5XL", 1000),
     DomRow("PC54", "Red", "SanMar", "YM", 2000),
     DomRow("PC54", "Red", "SanMar", "S", 4),
     DomRow("PC54", "Red", "SanMar", "M", 4),
     DomRow("PC54", "Red", "SanMar", "M", 6),
     DomRow("PC54", "Blue", "SanMar", "S", 2000),
     DomRow("MUG", "", "", "", 2000),
     DomRow("MUG", "", " ", "", 1000),
     DomRow("MUG", "", "Custom", "OSFA", 3000)}

(***************************************************************************)
(* Inputs of add_to_cart                                                   *)
(***************************************************************************)
Item(part, store) ==
    [part |-> part, color |-> "Red", store |-> store,
     sizes |-> <<SizeItem("L", Qty(5, FALSE))>>]

\* the orders of the model; the parts of one order are distinct. `request`
\* keeps the item list as the request gave it, `items` is sorted in place
OrderItems ==
    {<<>>,
     <<Item("PC54", "sanmar")>>,
     <<Item("PC54", "sanmar"), Item("MUG", "Etsy")>>,
     <<Item("G500", "S&S Activewear")>>,
     <<Item("MUG", "Etsy")>>,
     <<Item("G500", "S&S Activewear"), Item("PC54", "SanMar ")>>,
     <<Item("PC54", "sanmar"), Item("PC61", "SanMar ")>>}

\* the stock pages a vendor shows for an item: enough stock, some stock, none
OrderGrids ==
    {[labels |-> <<"L">>, rows |-> <<<<Cell(a, "enabled", "ok", TRUE)>>>>] : a \in Avails}


NewTask ==
    [pc |-> "new", page |-> "none", groups |-> <<>>, other |-> <<>>, todo |-> <<>>,
     processed_items |-> <<>>, skipped_custom |-> <<>>,
     acc |-> [any_added_overall |-> FALSE, all_out_of_stock |-> <<>>],
     calls |-> <<>>, result |-> None, tries |-> 0, ops |-> {}]

\* the page objects a task issues operations on: "own" is the page its own
\* ctx.new_page() returned, "caller" the `page` parameter of the enclosing
\* function, which all the tasks of the call share
own_page_only == {"own"}

\* tag_cleanup_on_order_page(p) and the loop of fetch_one work on p but wait
\* with page.wait_for_timeout, `page` being the enclosing function's parameter
own_and_caller_page == {"own", "caller"}

\* variant: the permit is given back on normal exit only
sem_exit_normal_only(free, how) == IF how = "raised" THEN free ELSE free + 1

\* the exit of `async with sem`: the permit is released, whether the block
\* ended normally or with an exception
sem_exit(free, how) == free + 1

Tasks == DOMAIN task

(***************************************************************************)
(* The process_order task of order t                                       *)
(***************************************************************************)
\* lines 311-331: sort the items, open the page, group the items by store
Start(t) ==
    /\ task[t].pc = "new"
    /\ LET items == sort_items(orders[t].items)
           groups == by_store(items)
       IN  /\ orders' = [orders EXCEPT ![t].items = items]
           /\ task' = [task EXCEPT ![t].pc = "waiting",
                                   ![t].page = "open",
                                   ![t].groups = groups,
                                   ![t].other = other_items(groups),
                                   ![t].todo = routed_items(groups)]
    /\ UNCHANGED <<sem, call>>

\* line 333: async with sem
Acquire(t) ==
    /\ task[t].pc = "waiting"
    /\ sem > 0
    /\ sem' = sem - 1
    /\ task' = [task EXCEPT ![t].pc = "running"]
    /\ UNCHANGED <<orders, call>>

\* lines 335-345, one item: the store's processor runs on the page and
\* returns; the item is recorded as processed
ProcessItem(t) ==
    /\ task[t].pc = "running"
    /\ task[t].todo # <<>>
    /\ LET it == Head(task[t].todo)
       IN  \E g \in OrderGrids :
           \E pk \in size_key_choices(build_size_inputs_by_warehouse(g), it.sizes) :
           \E b \in Buttons :
               LET r == process_item(normalize_store(it.store), g, pk, b, it)
               IN  /\ ~r.raised /\ ~r.commit_raised
                   /\ task' = [task EXCEPT
                          ![t].todo = Tail(@),
                          ![t].ops = @ \cup own_page_only,
                          ![t].acc = keep_result(@, it, r),
                          ![t].processed_items = Append(@, [part |-> it.part, color |-> it.color]),
                          ![t].calls = Append(@, [part |-> it.part, store |-> it.store,
                                                  added_any |-> r.added_any, oos |-> r.oos])]
    /\ UNCHANGED <<orders, sem, call>>

\* a call of the loop (home, the search, the colour page, the grid wait, the
\* cart button) throws: the finally block closes the page, the permit is
\* released and the task ends with the exception
ProcessRaises(t) ==
    /\ task[t].pc = "running"
    /\ task[t].todo # <<>>
    /\ task' = [task EXCEPT ![t].pc = "raised", ![t].page = "closed",
                            ![t].ops = @ \cup own_page_only]
    /\ sem' = sem_exit(sem, "raised")
    /\ UNCHANGED <<orders, call>>

Result(t, tk) ==
    [order_id |-> orders[t].id,
     status |-> classify(tk.processed_items, tk.acc.all_out_of_stock,
                         tk.skipped_custom, tk.acc.any_added_overall),
     details |-> [out_of_stock |-> tk.acc.all_out_of_stock,
                  skipped_custom |-> tk.skipped_custom,
                  processed |-> tk.processed_items,
                  any_added_overall |-> tk.acc.any_added_overall]]

SkipEntry(it) == [part |-> it.part, color |-> it.color, store |-> it.store]

\* lines 347-392: the other items are listed as skipped, the page is
\* closed, the permit released, and the status decided
Finish(t) ==
    /\ task[t].pc = "running"
    /\ task[t].todo = <<>>
    /\ LET tk == [task[t] EXCEPT
                     !.skipped_custom = [i \in 1..Len(task[t].other) |-> SkipEntry(task[t].other[i])],
                     !.page = "closed",
                     !.pc = "done"]
       IN  task' = [task EXCEPT ![t] = [tk EXCEPT !.result = Result(t, tk)]]
    /\ sem' = sem_exit(sem, "returned")
    /\ UNCHANGED <<orders, call>>

\* line 396: gather(return_exceptions=False) returns the results in order
GatherReturns ==
    /\ call.state = "running"
    /\ \A t \in Tasks : task[t].pc = "done"
    /\ call' = [call EXCEPT !.state = "returned",
                             !.result = [t \in Tasks |-> task[t].result]]
    /\ UNCHANGED <<orders, task, sem>>

\* line 396: the first exception of a task is raised to the caller
GatherRaises ==
    /\ call.state = "running"
    /\ \E t \in Tasks : task[t].pc = "raised"
    /\ call' = [call EXCEPT !.state = "raised"]
    /\ UNCHANGED <<orders, task, sem>>

(***************************************************************************)
(* The run_one task of clean_not_order_yet_tags (lines 282-290)            *)
(***************************************************************************)
\* line 283: async with sem
RunOneEnter(t) ==
    /\ task[t].pc = "run_one"
    /\ sem > 0
    /\ sem' = sem - 1
    /\ task' = [task EXCEPT ![t].pc = "run_one_in"]
    /\ UNCHANGED <<orders, call>>

\* line 284: page = await ctx.new_page()
RunOnePage(t) ==
    /\ task[t].pc = "run_one_in"
    /\ task' = [task EXCEPT ![t].pc = "run_one_page", ![t].page = "open"]
    /\ UNCHANGED <<orders, sem, call>>

\* lines 286-290: the order page is loaded, the tag replaced, the page
\* closed; the block ends
RunOneDone(t) ==
    /\ task[t].pc = "run_one_page"
    /\ task' = [task EXCEPT ![t].pc = "done", ![t].page = "closed",
                            ![t].ops = @ \cup own_and_caller_page]
    /\ sem' = sem_exit(sem, "returned")
    /\ UNCHANGED <<orders, call>>

\* a call of lines 284-288 throws: the block is left with the exception,
\* whatever page was opened stays open. new_page throws before any page
\* operation, goto and wait_for_load_state after operations on the own page
\* only, a call of the tag cleanup after the wait on the caller's page
RunOneRaises(t) ==
    /\ task[t].pc \in {"run_one_in", "run_one_page"}
    /\ \E o \in {own_page_only, own_and_caller_page} :
           task' = [task EXCEPT ![t].pc = "raised",
                                ![t].ops = IF task[t].pc = "run_one_in" THEN @ ELSE @ \cup o]
    /\ sem' = sem_exit(sem, "raised")
    /\ UNCHANGED <<orders, call>>

(***************************************************************************)
(* The fetch_one task of get_so_details_parallel (lines 741-768)           *)
(***************************************************************************)
\* line 743: async with sem
FetchEnter(t) ==
    /\ task[t].pc = "fetch_one"
    /\ sem > 0
    /\ sem' = sem - 1
    /\ task' = [task EXCEPT ![t].pc = "fetch_one_in"]
    /\ UNCHANGED <<orders, call>>

\* lines 744-748: the start delay, then p = await ctx.new_page()
FetchPage(t) ==
    /\ task[t].pc = "fetch_one_in"
    /\ task' = [task EXCEPT ![t].pc = "fetch_one_page", ![t].page = "open"]
    /\ UNCHANGED <<orders, sem, call>>

\* lines 750-758: a round of the loop that extracts no item and is not the
\* fourth one
FetchRetry(t) ==
    /\ task[t].pc = "fetch_one_page"
    /\ task[t].tries < 3
    /\ task' = [task EXCEPT ![t].tries = @ + 1, ![t].ops = @ \cup own_and_caller_page]
    /\ UNCHANGED <<orders, sem, call>>

\* lines 750-768: the last round of the loop (items were extracted, or it is
\* the fourth round), the result is stored, the page closed; the block ends
FetchDone(t) ==
    /\ task[t].pc = "fetch_one_page"
    /\ task' = [task EXCEPT ![t].pc = "done", ![t].page = "closed",
                            ![t].tries = @ + 1, ![t].result = "stored",
                            ![t].ops = @ \cup own_and_caller_page]
    /\ sem' = sem_exit(sem, "returned")
    /\ UNCHANGED <<orders, call>>

\* a call of lines 745-766 throws: the block is left with the exception,
\* whatever page was opened stays open. new_page throws before any page
\* operation, goto and wait_for_selector after operations on the own page
\* only, extract_line_items after the wait on the caller's page
FetchRaises(t) ==
    /\ task[t].pc \in {"fetch_one_in", "fetch_one_page"}
    /\ \E o \in {own_page_only, own_and_caller_page} :
           task' = [task EXCEPT ![t].pc = "raised",
                                ![t].ops = IF task[t].pc = "fetch_one_in" THEN @ ELSE @ \cup o]
    /\ sem' = sem_exit(sem, "raised")
    /\ UNCHANGED <<orders, call>>

(***************************************************************************)
(* Specifications                                                          *)
(***************************************************************************)
IdleAlloc ==
    /\ sizes = <<>>
    /\ grid = [labels |-> <<>>, rows |-> <<>>]
    /\ alloc = InitRun(None)

IdleClass ==
    /\ cin = [processed_items |-> <<>>, all_out_of_stock |-> <<>>,
              skipped_custom |-> <<>>, any_added_overall |-> FALSE]
    /\ cstatus = None

IdleOrders ==
    /\ orders = <<>>
    /\ task = <<>>
    /\ sem = max_concurrency
    /\ call = [fn |-> "add_to_cart", max_concurrency |-> max_concurrency,
               state |-> "idle", result |-> <<>>]

IdleMerge ==
    /\ dom_rows = <<>>
    /\ extracted = [state |-> "idle", items |-> <<>>]

\* no object: the None of _pw and _ctx, objects being numbered from 1
NoObject == 0

IdlePoll ==
    poll = [fn |-> None, pc |-> "idle", seen |-> -1, stable |-> 0, polls |-> 0,
            count |-> 0, changes |-> 0, readings |-> <<>>]

IdleBoot ==
    boot = [pw |-> NoObject, ctx |-> NoObject, lock |-> 0, starts |-> 0, launches |-> 0,
            ok_starts |-> 0, ok_launches |-> 0, failed_starts |-> 0, failed_launches |-> 0,
            callers |-> <<>>]

IdleLabel ==
    /\ size_labels = <<>>
    /\ size_keys = [state |-> "idle", keys |-> <<>>, again |-> <<>>]

IdleHttp ==
    http = [endpoint |-> None, pc |-> "idle", so_urls |-> 0, result |-> [kind |-> None],
            status |-> 0, body |-> [kind |-> None]]

IdleService == IdlePoll /\ IdleBoot /\ IdleLabel /\ IdleHttp

\* add_to_cart is called with a list of orders; one task per order
Init ==
    /\ IdleAlloc
    /\ IdleClass
    /\ IdleMerge
    /\ IdleService
    /\ \E n \in 0..MaxOrders :
          \E its \in [1..n -> OrderItems] :
              /\ orders = [t \in 1..n |-> [id |-> t, items |-> its[t], request |-> its[t]]]
              /\ task = [t \in 1..n |-> NewTask]
    /\ sem = max_concurrency
    /\ call = [fn |-> "add_to_cart", max_concurrency |-> max_concurrency,
               state |-> "running", result |-> <<>>]

Next ==
    /\ UNCHANGED <<allocVars, classVars, mergeVars, serviceVars>>
    /\ \/ \E t \in Tasks : Start(t)
       \/ \E t \in Tasks : Acquire(t)
       \/ \E t \in Tasks : ProcessItem(t)
       \/ \E t \in Tasks : ProcessRaises(t)
       \/ \E t \in Tasks : Finish(t)
       \/ GatherReturns
       \/ GatherRaises

Spec == Init /\ [][Next]_vars

\* the three calls that run their tasks under a semaphore, with any number
\* of permits and of tasks
Functions == {"add_to_cart", "clean_not_order_yet_tags", "get_so_details_parallel"}

\* the state of a task when asyncio.create_task has made it
FirstPc(fn) ==
    CASE fn = "add_to_cart" -> "new"
      [] fn = "clean_not_order_yet_tags" -> "run_one"
      [] fn = "get_so_details_parallel" -> "fetch_one"

SemItems == {<<>>, <<Item("PC54", "sanmar")>>}

InitSem ==
    /\ IdleAlloc
    /\ IdleClass
    /\ IdleMerge
    /\ IdleService
    /\ \E fn \in Functions :
       \E m \in 1..MaxPermits :
       \E n \in 0..MaxTasks :
       \E its \in [1..n -> SemItems] :
           /\ fn # "add_to_cart" => \A t \in 1..n : its[t] = <<>>
           /\ orders = [t \in 1..n |-> [id |-> t, items |-> its[t], request |-> its[t]]]
           /\ task = [t \in 1..n |-> [NewTask EXCEPT !.pc = FirstPc(fn)]]
           /\ sem = m
           /\ call = [fn |-> fn, max_concurrency |-> m, state |-> "running", result |-> <<>>]

NextSem ==
    /\ UNCHANGED <<allocVars, classVars, mergeVars, serviceVars>>
    /\ \/ \E t \in Tasks : Start(t)
       \/ \E t \in Tasks : Acquire(t)
       \/ \E t \in Tasks : ProcessItem(t)
       \/ \E t \in Tasks : ProcessRaises(t)
       \/ \E t \in Tasks : Finish(t)
       \/ \E t \in Tasks : RunOneEnter(t)
       \/ \E t \in Tasks : RunOnePage(t)
       \/ \E t \in Tasks : RunOneDone(t)
       \/ \E t \in Tasks : RunOneRaises(t)
       \/ \E t \in Tasks : FetchEnter(t)
       \/ \E t \in Tasks : FetchPage(t)
       \/ \E t \in Tasks : FetchRetry(t)
       \/ \E t \in Tasks : FetchDone(t)
       \/ \E t \in Tasks : FetchRaises(t)
       \/ GatherReturns
       \/ GatherRaises

\* the steps of the tasks other than the return of a vendor processor
TaskSteps ==
    /\ UNCHANGED <<allocVars, classVars, mergeVars, serviceVars>>
    /\ \E t \in Tasks :
           \/ Start(t) \/ Acquire(t) \/ ProcessRaises(t) \/ Finish(t)
           \/ RunOneEnter(t) \/ RunOnePage(t) \/ RunOneDone(t) \/ RunOneRaises(t)
           \/ FetchEnter(t) \/ FetchPage(t) \/ FetchRetry(t) \/ FetchDone(t)
           \/ FetchRaises(t)

\* the event loop does not stop while a task can take a step, and every
\* awaited browser call ends, with a result or with an error (a timeout):
\* a task inside the block does not stay there for ever, its vendor
\* processor returns (ProcessItem) or raises (ProcessRaises)
SpecSem == InitSem /\ [][NextSem]_vars /\ WF_vars(TaskSteps)

\* the status decision on any lists
Parts == {"PC54", "G500"}

EntryLists(S) == UNION {[1..n -> S] : n \in 0..MaxList}

OosMaps == UNION {[P -> {<<"L">>, <<"L", "XL">>}] : P \in SUBSET Parts}

InitClassify ==
    /\ IdleAlloc
    /\ IdleOrders
    /\ IdleMerge
    /\ IdleService
    /\ cin \in [processed_items : EntryLists({[part |-> p, color |-> "Red"] : p \in Parts}),
                all_out_of_stock : OosMaps,
                skipped_custom : EntryLists({[part |-> "MUG", color |-> "Red", store |-> st] :
                                                st \in {"Etsy", "Custom"}}),
                any_added_overall : BOOLEAN]
    /\ cstatus = None

Classify ==
    /\ cstatus = None
    /\ cstatus' = classify(cin.processed_items, cin.all_out_of_stock,
                           cin.skipped_custom, cin.any_added_overall)
    /\ UNCHANGED <<cin, allocVars, orderVars, mergeVars, serviceVars>>

NextClassify == Classify

SpecClassify == InitClassify /\ [][NextClassify]_vars

\* the allocators on any demand list and any grid

InitAlloc ==
    /\ IdleClass
    /\ IdleOrders
    /\ IdleMerge
    /\ IdleService
    /\ \E n \in 0..MaxWork :
          \E m \in 0..(MaxWork - n) :
              /\ sizes \in Demands(n)
              /\ grid \in Grids(m)
    /\ alloc = InitRun(None)

RunSanmar ==
    /\ alloc.vendor = None
    /\ \E pk \in size_key_choices(build_size_inputs_by_warehouse(grid), sizes) :
          \E b \in Buttons :
              alloc' = sanmar_commit(add_requested_sizes(grid, pk, sizes), b)
    /\ UNCHANGED <<sizes, grid, classVars, orderVars, mergeVars, serviceVars>>

RunSS ==
    /\ alloc.vendor = None
    /\ \E b \in Buttons :
          alloc' = ss_commit(fill_sizes_across_warehouses(grid, sizes), b)
    /\ UNCHANGED <<sizes, grid, classVars, orderVars, mergeVars, serviceVars>>

NextAlloc == RunSanmar \/ RunSS

SpecAlloc == InitAlloc /\ [][NextAlloc]_vars

\* extract_line_items on any rows
InitMerge ==
    /\ IdleAlloc
    /\ IdleClass
    /\ IdleOrders
    /\ IdleService
    /\ \E n \in 0..MaxDomRows : dom_rows \in [1..n -> DomRowSet]
    /\ extracted = [state |-> "called", items |-> <<>>]

ExtractLineItems ==
    /\ extracted.state = "called"
    /\ extracted' = [state |-> "returned", items |-> extract_line_items(dom_rows)]
    /\ UNCHANGED <<dom_rows, allocVars, classVars, orderVars, serviceVars>>

NextMerge == ExtractLineItems

SpecMerge == InitMerge /\ [][NextMerge]_vars

(***************************************************************************)
(* main.py: the row-materialization loops                                  *)
(*   get_sales_orders_urls, lines 499-514, and extract_line_items, lines   *)
(*   563-588. poll.count is what the page shows (rows for the first, size  *)
(*   rows or item names for the second); the page changes it at most       *)
(*   MaxChanges times. poll.readings are the counts the loop has read.     *)
(***************************************************************************)
\* line 508: if stable >= 2: break
stable_polls == 2

\* line 563: for _ in range(8)
range_polls == 8

\* variant: the counter of equal readings is never reset
next_stable_no_reset(stable, count, seen) == stable + 1

\* lines 503-507: stable += 1 when the count is the one seen, else stable = 0
next_stable(stable, count, seen) == IF count = seen THEN stable + 1 ELSE 0

PollLoops == {"get_sales_orders_urls", "extract_line_items"}

\* rows.first has been awaited visible before the loop of
\* get_sales_orders_urls starts (line 497)
InitPoll ==
    /\ IdleAlloc
    /\ IdleClass
    /\ IdleOrders
    /\ IdleMerge
    /\ IdleBoot /\ IdleLabel /\ IdleHttp
    /\ \E fn \in PollLoops :
       \E c \in 0..MaxRows :
           /\ fn = "get_sales_orders_urls" => c >= 1
           /\ poll = [fn |-> fn, pc |-> "loop", seen |-> -1, stable |-> 0, polls |-> 0,
                      count |-> c, changes |-> 0, readings |-> <<>>]

\* the page attaches or detaches rows
DomChanges ==
    /\ poll.pc = "loop"
    /\ poll.changes < MaxChanges
    /\ \E c \in (0..MaxRows) \ {poll.count} :
           poll' = [poll EXCEPT !.count = c, !.changes = @ + 1]

\* lines 502-514, one round: the count is read and compared, the loop is
\* left when stable >= 2, else the list is scrolled and 200 ms waited
PollRows ==
    /\ poll.fn = "get_sales_orders_urls"
    /\ poll.pc = "loop"
    /\ LET st == next_stable(poll.stable, poll.count, poll.seen)
       IN  poll' = [poll EXCEPT !.stable = st,
                                !.seen = poll.count,
                                !.polls = @ + 1,
                                !.readings = Append(@, poll.count),
                                !.pc = IF st >= stable_polls THEN "exited" ELSE "loop"]

\* rows.count() raises, or the fallback scroll or the wait of a round that
\* does not leave the loop raises: the function ends with the exception
PollRowsRaises ==
    /\ poll.fn = "get_sales_orders_urls"
    /\ poll.pc = "loop"
    /\ \/ poll' = [poll EXCEPT !.pc = "raised"]
       \/ LET st == next_stable(poll.stable, poll.count, poll.seen)
          IN  /\ st < stable_polls
              /\ poll' = [poll EXCEPT !.stable = st,
                                       !.seen = poll.count,
                                       !.polls = @ + 1,
                                       !.readings = Append(@, poll.count),
                                       !.pc = "raised"]

\* lines 563-588, one round: the locator count is read (an exception of it
\* is swallowed); with a row in sight the loop is left, else the container
\* is scrolled and 200 ms waited; the eighth round is the last
ExtractRound ==
    /\ poll.fn = "extract_line_items"
    /\ poll.pc = "loop"
    /\ \E q \in {"returns", "throws"} :
           LET found == q = "returns" /\ poll.count > 0
           IN  poll' = [poll EXCEPT
                   !.polls = @ + 1,
                   !.readings = Append(@, IF q = "returns" THEN poll.count ELSE -1),
                   !.pc = IF found THEN "exited"
                          ELSE IF poll.polls + 1 = range_polls THEN "exhausted"
                          ELSE "loop"]

\* line 588: page.wait_for_timeout raises in a round that saw no row
ExtractWaitRaises ==
    /\ poll.fn = "extract_line_items"
    /\ poll.pc = "loop"
    /\ \E q \in {"returns", "throws"} :
           /\ ~(q = "returns" /\ poll.count > 0)
           /\ poll' = [poll EXCEPT
                   !.polls = @ + 1,
                   !.readings = Append(@, IF q = "returns" THEN poll.count ELSE -1),
                   !.pc = "raised"]

PollSteps ==
    /\ UNCHANGED <<allocVars, classVars, orderVars, mergeVars, boot, size_labels, size_keys, http>>
    /\ (PollRows \/ PollRowsRaises \/ ExtractRound \/ ExtractWaitRaises)

NextPoll ==
    /\ UNCHANGED <<allocVars, classVars, orderVars, mergeVars, boot, size_labels, size_keys, http>>
    /\ \/ DomChanges
       \/ PollRows
       \/ PollRowsRaises
       \/ ExtractRound
       \/ ExtractWaitRaises

\* the event loop resumes the coroutine and every awaited page call ends,
\* with a result or an error: a round of a loop is always completed
SpecPoll == InitPoll /\ [][NextPoll]_vars /\ WF_vars(PollSteps)

(***************************************************************************)
(* main.py: the shared context (lines 38-40, 130-146, 165-173)             *)
(*   boot.pw, boot.ctx : _pw and _ctx, NoObject for None, else the number  *)
(*                       of the object                                     *)
(*   boot.lock         : 0 when _lock is free, else the caller holding it  *)
(*   boot.callers[c]   : a call of get_ctx or of                           *)
(*                       _init_playwright_and_context, with its position   *)
(*   There is no call of _shutdown_playwright.                             *)
(***************************************************************************)
CtxFunctions == {"get_ctx", "_init_playwright_and_context"}

\* variant: the lock is entered whoever holds it
lock_free_always(holder) == TRUE

\* asyncio.Lock: acquire returns when the lock is not held
lock_free(holder) == holder = 0

Callers == DOMAIN boot.callers

\* the end of `async with _lock` and of the call: the lock is released;
\* get_ctx then returns _ctx (line 173)
LeaveLock(b, c) ==
    [b EXCEPT !.lock = 0,
              !.callers[c].pc = "returned",
              !.callers[c].got = IF b.callers[c].fn = "get_ctx" THEN b.ctx ELSE NoObject]

\* lines 138-146: launch_persistent_context is called when _ctx is None
LaunchIfNone(b, c) ==
    IF b.ctx = NoObject
    THEN [b EXCEPT !.launches = @ + 1, !.callers[c].pc = "launching"]
    ELSE LeaveLock(b, c)

\* lines 136-137: async_playwright().start() is called when _pw is None
StartIfNone(b, c) ==
    IF b.pw = NoObject
    THEN [b EXCEPT !.starts = @ + 1, !.callers[c].pc = "starting"]
    ELSE LaunchIfNone(b, c)

InitCtx ==
    /\ IdleAlloc
    /\ IdleClass
    /\ IdleOrders
    /\ IdleMerge
    /\ IdlePoll /\ IdleLabel /\ IdleHttp
    /\ \E n \in 1..MaxCallers :
       \E fns \in [1..n -> CtxFunctions] :
           boot = [pw |-> NoObject, ctx |-> NoObject, lock |-> 0, starts |-> 0, launches |-> 0,
                   ok_starts |-> 0, ok_launches |-> 0, failed_starts |-> 0,
                   failed_launches |-> 0,
                   callers |-> [c \in 1..n |-> [fn |-> fns[c], pc |-> "call",
                                                 got |-> NoObject, saw_none |-> FALSE]]]

\* lines 170-173 and 135: get_ctx returns _ctx at once when it is set; else
\* it calls the initializer, which goes for the lock
CallCtx(c) ==
    /\ boot.callers[c].pc = "call"
    /\ boot' = IF boot.callers[c].fn = "get_ctx" /\ boot.ctx # NoObject
               THEN [boot EXCEPT !.callers[c].pc = "returned", !.callers[c].got = boot.ctx]
               ELSE [boot EXCEPT !.callers[c].pc = "wait_lock",
                                 !.callers[c].saw_none = boot.ctx = NoObject]

\* line 135: the lock is taken; lines 136-139 run up to the first await
AcquireLock(c) ==
    /\ boot.callers[c].pc = "wait_lock"
    /\ lock_free(boot.lock)
    /\ boot' = StartIfNone([boot EXCEPT !.lock = c], c)

\* line 137: start() returns the Playwright object
StartReturns(c) ==
    /\ boot.callers[c].pc = "starting"
    /\ boot' = LaunchIfNone([boot EXCEPT !.pw = boot.ok_starts + 1,
                                          !.ok_starts = @ + 1], c)

\* line 137: start() raises; the lock is released, the call ends with the
\* exception
StartRaises(c) ==
    /\ boot.callers[c].pc = "starting"
    /\ boot' = [boot EXCEPT !.lock = 0, !.failed_starts = @ + 1,
                            !.callers[c].pc = "raised"]

\* lines 139-146: launch_persistent_context returns the context
LaunchReturns(c) ==
    /\ boot.callers[c].pc = "launching"
    /\ boot' = LeaveLock([boot EXCEPT !.ctx = boot.ok_launches + 1,
                                       !.ok_launches = @ + 1], c)

\* lines 139-146: launch_persistent_context raises
LaunchRaises(c) ==
    /\ boot.callers[c].pc = "launching"
    /\ boot' = [boot EXCEPT !.lock = 0, !.failed_launches = @ + 1,
                            !.callers[c].pc = "raised"]

NextCtx ==
    /\ UNCHANGED <<allocVars, classVars, orderVars, mergeVars, poll, size_labels, size_keys, http>>
    /\ \/ \E c \in Callers : CallCtx(c)
       \/ \E c \in Callers : AcquireLock(c)
       \/ \E c \in Callers : StartReturns(c)
       \/ \E c \in Callers : StartRaises(c)
       \/ \E c \in Callers : LaunchReturns(c)
       \/ \E c \in Callers : LaunchRaises(c)

SpecCtx == InitCtx /\ [][NextCtx]_vars

(***************************************************************************)
(* main.py: _normalize_size_label on any labels (lines 73-92, 690)         *)
(***************************************************************************)
LabelSet ==
    {"", " ", "qty", "QTY", "S", "SM", "Small", "M", "xl", "XL", "XXL", "2XL", " 2xl ",
     "5XL", "OS", "OSFA", "ONE SIZE", "ONE SIZE FITS ALL"}

InitLabel ==
    /\ IdleAlloc
    /\ IdleClass
    /\ IdleOrders
    /\ IdleMerge
    /\ IdlePoll /\ IdleBoot /\ IdleHttp
    /\ \E n \in 0..MaxLabels : size_labels \in [1..n -> LabelSet]
    /\ size_keys = [state |-> "called", keys |-> <<>>, again |-> <<>>]

\* line 690: the size key of each label
NormalizeLabels ==
    /\ size_keys.state = "called"
    /\ size_keys' = [size_keys EXCEPT
           !.state = "merged",
           !.keys = [i \in DOMAIN size_labels |-> normalize_size_label(size_labels[i])]]
    /\ UNCHANGED size_labels

\* line 690 again, on items whose size is a key of the first pass
RenormalizeKeys ==
    /\ size_keys.state = "merged"
    /\ size_keys' = [size_keys EXCEPT
           !.state = "remerged",
           !.again = [i \in DOMAIN size_keys.keys |-> normalize_size_label(size_keys.keys[i])]]
    /\ UNCHANGED size_labels

NextLabel ==
    /\ UNCHANGED <<allocVars, classVars, orderVars, mergeVars, poll, boot, http>>
    /\ \/ NormalizeLabels
       \/ RenormalizeKeys

SpecLabel == InitLabel /\ [][NextLabel]_vars

(***************************************************************************)
(* main.py: the endpoints that answer with what a fetch function returned  *)
(*   GET /to-order (1174-1180, 884-915), GET /overdue-jobs (1076-1097,     *)
(*   775-824), GET /pending-jobs (1100-1124, 827-881)                      *)
(*   http.result is the value of the fetch function:                       *)
(*     [kind |-> "list", sos |-> ...]  the list get_so_details_parallel    *)
(*                                     returned, per sales order its      *)
(*                                     number of items                     *)
(*     [kind |-> "dict", error |-> ..] {"error": "..."}                    *)
(*     [kind |-> "str", path |-> ...]  the path of the PDF, "" for no rows *)
(***************************************************************************)
Endpoints == {"/to-order", "/overdue-jobs", "/pending-jobs"}

ErrorDicts ==
    {[kind |-> "dict", error |-> e] : e \in {"Playwright error", "Unexpected error"}}

\* len() of a fetch result: a dict {"error": ...} has one key
py_len(r) ==
    CASE r.kind = "list" -> Len(r.sos)
      [] r.kind = "dict" -> 1
      [] r.kind = "str" -> IF r.path = "" THEN 0 ELSE 1

\* isinstance(result, dict)
is_dict(r) == r.kind = "dict"

InitHttp ==
    /\ IdleAlloc
    /\ IdleClass
    /\ IdleOrders
    /\ IdleMerge
    /\ IdlePoll /\ IdleBoot /\ IdleLabel
    /\ \E e \in Endpoints :
           http = [endpoint |-> e, pc |-> "request", so_urls |-> 0, result |-> [kind |-> None],
                   status |-> 0, body |-> [kind |-> None]]

\* fetch_to_order_so, lines 885-902: the list page is loaded and
\* get_sales_orders_urls returns the sales orders of the view
ListSalesOrders ==
    /\ http.endpoint = "/to-order"
    /\ http.pc = "request"
    /\ \E n \in 0..MaxSos : http' = [http EXCEPT !.pc = "listed", !.so_urls = n]

\* lines 904-906: get_so_details_parallel returns one entry per sales order
DetailsReturn ==
    /\ http.pc = "listed"
    /\ \E items \in [1..http.so_urls -> 0..MaxItems] :
           http' = [http EXCEPT !.pc = "fetched",
                                !.result = [kind |-> "list", sos |-> items]]

\* lines 908-915: a call of the try block raised; the page is closed and
\* {"error": ...} returned
FetchToOrderFails ==
    /\ http.endpoint = "/to-order"
    /\ http.pc \in {"request", "listed"}
    /\ \E r \in ErrorDicts : http' = [http EXCEPT !.pc = "fetched", !.result = r]

\* get_to_order_so, lines 1177-1180
GetToOrderSo ==
    /\ http.endpoint = "/to-order"
    /\ http.pc = "fetched"
    /\ http' = IF py_len(http.result) <= 0
               THEN [http EXCEPT !.pc = "responded", !.status = 204,
                                 !.body = [kind |-> "message", message |-> "no rows found"]]
               ELSE [http EXCEPT !.pc = "responded", !.status = 200,
                                 !.body = [kind |-> "result", result |-> http.result]]

\* fetch_overdue_jobs and fetch_pending_jobs: the path of the export, "" for
\* a view without rows, {"error": ...} when a call raised
FetchJobs ==
    /\ http.endpoint \in {"/overdue-jobs", "/pending-jobs"}
    /\ http.pc = "request"
    /\ \E r \in ErrorDicts \cup {[kind |-> "str", path |-> q] : q \in {"", "/tmp/jobs.pdf"}} :
           http' = [http EXCEPT !.pc = "fetched", !.result = r]

\* get_overdue_jobs (1081-1097) and get_pending_jobs (1109-1124)
GetJobs ==
    /\ http.endpoint \in {"/overdue-jobs", "/pending-jobs"}
    /\ http.pc = "fetched"
    /\ http' = IF is_dict(http.result)
               THEN [http EXCEPT !.pc = "responded", !.status = 500,
                                 !.body = [kind |-> "result", result |-> http.result]]
               ELSE IF http.result.path = ""
               THEN [http EXCEPT !.pc = "responded", !.status = 204,
                                 !.body = [kind |-> "message", message |-> "no rows found"]]
               ELSE [http EXCEPT !.pc = "responded", !.status = 200,
                                 !.body = [kind |-> "file", path |-> http.result.path]]

NextHttp ==
    /\ UNCHANGED <<allocVars, classVars, orderVars, mergeVars, poll, boot, size_labels, size_keys>>
    /\ \/ ListSalesOrders
       \/ DetailsReturn
       \/ FetchToOrderFails
       \/ GetToOrderSo
       \/ FetchJobs
       \/ GetJobs

SpecHttp == InitHttp /\ [][NextHttp]_vars

(***************************************************************************)
(* Properties of add_to_cart                                               *)
(***************************************************************************)
Done(t) == task[t].pc = "done"

Calls(t) == task[t].calls

\* C1: an order with an item on a supported vendor whose allocation added a
\* quantity, and for which no allocation reported an out-of-stock size, gets
\* the status "success", whether or not other items of the order were
\* skipped.
Cex_C1_AddedIsSuccess ==
    \A t \in Tasks :
        (/\ Done(t)
         /\ \E i \in DOMAIN Calls(t) : Calls(t)[i].added_any
         /\ \A i \in DOMAIN Calls(t) : Calls(t)[i].oos = <<>>)
            => task[t].result.status = "success"

\* C2: details.any_added_overall of a result is true iff some processor call
\* made for the order returned anyAdded = true.
Cex_C2_AnyAddedOverall ==
    \A t \in Tasks :
        Done(t) =>
            (task[t].result.details.any_added_overall
                <=> \E i \in DOMAIN Calls(t) : Calls(t)[i].added_any)

\* C3: details.out_of_stock of a result maps part p to the sizes S iff the
\* allocation of a processed item with part p returned the non-empty list S;
\* and an order whose processed items all came back out of stock with nothing
\* added gets the status "out_of_stock".
Cex_C3_OutOfStock ==
    \A t \in Tasks :
        Done(t) =>
            LET oos == task[t].result.details.out_of_stock
            IN  /\ \A i \in DOMAIN Calls(t) :
                       Calls(t)[i].oos # <<>> =>
                           /\ Calls(t)[i].part \in DOMAIN oos
                           /\ oos[Calls(t)[i].part] = Calls(t)[i].oos
                /\ \A p \in DOMAIN oos :
                       \E i \in DOMAIN Calls(t) :
                           Calls(t)[i].part = p /\ Calls(t)[i].oos = oos[p] /\ oos[p] # <<>>
                /\ (/\ Calls(t) # <<>>
                    /\ \A i \in DOMAIN Calls(t) :
                           ~Calls(t)[i].added_any /\ Calls(t)[i].oos # <<>>)
                       => task[t].result.status = "out_of_stock"

PartsOf(list) == {list[i].part : i \in DOMAIN list}

Count(list, part) == Cardinality({i \in DOMAIN list : list[i].part = part})

\* C5: after an order is processed without error every item is in exactly
\* one of details.processed and details.skipped_custom, an item is in
\* skipped_custom iff its normalized store has no registered processor, and
\* no item that was routed to a vendor processor is reported as skipped.
Cex_C5_ProcessedXorSkipped ==
    \A t \in Tasks :
        Done(t) =>
            LET d == task[t].result.details
            IN  \A i \in DOMAIN orders[t].items :
                    LET it == orders[t].items[i]
                    IN  /\ Count(d.processed, it.part) + Count(d.skipped_custom, it.part) = 1
                        /\ it.part \in PartsOf(d.skipped_custom)
                               <=> normalize_store(it.store) \notin STORE_PROCESSORS
                        /\ it.part \in PartsOf(Calls(t)) => it.part \notin PartsOf(d.skipped_custom)

(***************************************************************************)
(* Properties of the status decision                                       *)
(***************************************************************************)
Statuses == {"custom_store_only", "out_of_stock", "partial", "success", "no_items_added"}

\* C4: the status is the decision table read top to bottom, first match
\* wins, over (processed empty?, outOfStock empty?, skippedCustom empty?,
\* anyAddedOverall): custom_store_only, then out_of_stock, then partial, then
\* success, else no_items_added; every combination gets exactly one of the
\* five statuses.
Thm_C4_DecisionTable ==
    cstatus # None =>
        LET noProc == cin.processed_items = <<>>
            noOos == DOMAIN cin.all_out_of_stock = {}
            noSkip == cin.skipped_custom = <<>>
            any == cin.any_added_overall
            row1 == noProc /\ ~noSkip
            row2 == ~noProc /\ ~any /\ ~noOos
            row3 == ~noOos /\ any
            row4 == any
        IN  /\ cstatus \in Statuses
            /\ cstatus = "custom_store_only" <=> row1
            /\ cstatus = "out_of_stock" <=> (~row1 /\ row2)
            /\ cstatus = "partial" <=> (~row1 /\ ~row2 /\ row3)
            /\ cstatus = "success" <=> (~row1 /\ ~row2 /\ ~row3 /\ row4)
            /\ cstatus = "no_items_added" <=> (~row1 /\ ~row2 /\ ~row3 /\ ~row4)

\* C4 witness: rows 1 and 3 both match and the first one wins
Wit_C4_FirstMatchWins ==
    /\ cstatus = "custom_store_only"
    /\ cin.any_added_overall
    /\ DOMAIN cin.all_out_of_stock # {}

(***************************************************************************)
(* Properties of the allocators                                            *)
(***************************************************************************)
Ran == alloc.vendor # None

Returned == Ran /\ ~alloc.raised

\* a cell the allocator can use: it has an enabled input, shows stock, and
\* its fill does not throw
Usable(c) == Committable(c) /\ c.avail > 0 /\ c.fill

RECURSIVE SumQty(_)
SumQty(calls) == IF calls = <<>> THEN 0 ELSE Head(calls).qty + SumQty(Tail(calls))

Max0(n) == IF n > 0 THEN n ELSE 0

FillsOf(d) == SelectSeq(alloc.fills, LAMBDA f : f.d = d)

\* C6: the allocation of one demand entry is first-fit over its pool in
\* source order: the fills of an entry go to cells of increasing pool
\* position, each fill is min(availableQuantity, remaining), remaining starts
\* at the requested quantity and drops by each fill, and a cell is filled
\* only if every earlier usable cell of the pool was filled to its full
\* availableQuantity.
Thm_C6_FirstFit ==
    Ran =>
        \A d \in DOMAIN alloc.entries :
            LET F == FillsOf(d)
                e == alloc.entries[d]
            IN  \A a \in DOMAIN F :
                    /\ F[a].qty = Min(F[a].avail, F[a].before)
                    /\ F[a].before = IF a = 1 THEN PyInt(e.quantity)
                                     ELSE F[a - 1].before - F[a - 1].qty
                    /\ a > 1 => F[a - 1].pos < F[a].pos
                    /\ e.cells[F[a].pos] = F[a].cell
                    /\ \A k \in 1..(F[a].pos - 1) :
                           Usable(CellAt(grid, e.cells[k])) =>
                               \E b \in 1..(a - 1) :
                                   F[b].pos = k /\ F[b].qty = CellAt(grid, e.cells[k]).avail

\* C6 witness: demand L=5 over the cells A=3, B=10 gives the fills A=3, B=2,
\* anyAdded true and no out-of-stock size
Wit_C6_ScenarioA ==
    /\ Returned
    /\ sizes = <<SizeItem("L", Qty(5, FALSE))>>
    /\ Len(alloc.fills) = 2
    /\ alloc.fills[1].avail = 3 /\ alloc.fills[1].qty = 3
    /\ alloc.fills[2].avail = 10 /\ alloc.fills[2].qty = 2
    /\ alloc.added_any
    /\ alloc.oos = <<>>

RECURSIVE SumHalves(_)
SumHalves(ss) == IF ss = <<>> THEN 0 ELSE Halves(Head(ss).quantity) + SumHalves(Tail(ss))

RECURSIVE SumInt(_)
SumInt(ss) == IF ss = <<>> THEN 0 ELSE Max0(PyInt(Head(ss).quantity)) + SumInt(Tail(ss))

RECURSIVE SumShort(_)
SumShort(es) ==
    IF es = <<>> THEN 0
    ELSE (IF Head(es).reported THEN Head(es).remaining ELSE 0) + SumShort(Tail(es))

RECURSIVE SumShort0(_)
SumShort0(es) ==
    IF es = <<>> THEN 0
    ELSE (IF Head(es).reported THEN Max0(Head(es).remaining) ELSE 0) + SumShort0(Tail(es))

Cex_C8_NoFillOnUnusable ==
    \A a \in DOMAIN alloc.issued :
        alloc.issued[a].input = "enabled" /\ alloc.issued[a].avail > 0

\* does the processor of this run find a column for the label
KeyFound(size) ==
    IF alloc.vendor = "sanmar"
    THEN normalize_size(size) \cap DOMAIN build_size_inputs_by_warehouse(grid) # {}
    ELSE ss_size_found(get_size_order(grid.labels), size)

RECURSIVE ReportedLabels(_)
ReportedLabels(es) ==
    IF es = <<>> THEN <<>>
    ELSE (IF Head(es).reported THEN <<Head(es).size>> ELSE <<>>) \o ReportedLabels(Tail(es))

PoolKeys(g) ==
    {Upper(Strip(g.labels[p[2]])) :
        p \in {q \in (1..Len(g.rows)) \X (1..Len(g.labels)) : CellAt(g, q).input # "none"}}

\* C10 as stated: in both processors a demanded size is found whenever one
\* of its aliases is, ignoring case, the label of a size column
Cex_C10_AliasMatch ==
    Returned =>
        \A d \in DOMAIN alloc.entries :
            LET e == alloc.entries[d]
            IN  (PyInt(e.quantity) > 0 /\ normalize_size(e.size) \cap PoolKeys(grid) # {})
                    => e.key # None

\* C11 as stated: in both processors a demand entry with quantity <= 0
\* causes no fill call and is not reported out of stock, whatever the grid
Cex_C11_NonPositiveSkipped ==
    Ran =>
        \A d \in DOMAIN alloc.entries :
            LET e == alloc.entries[d]
            IN  Halves(e.quantity) <= 0 =>
                    /\ ~e.reported
                    /\ \A a \in DOMAIN alloc.issued : alloc.issued[a].d # d

\* the fill calls of entry d that threw
FailedFills(d) ==
    SelectSeq(alloc.issued, LAMBDA f : f.d = d /\ ~FillReturns(CellAt(grid, f.cell)))

\* C12 as stated: in both processors a fill that throws does not abort the
\* allocation: the run goes on to the next cell and ends normally, only the
\* fills that returned are counted, and a size whose fills all threw is
\* reported out of stock
Cex_C12_FillFailureContinues ==
    Ran =>
        /\ ~alloc.raised
        /\ Len(alloc.entries) = Len(sizes)
        /\ \A d \in DOMAIN alloc.entries :
               LET e == alloc.entries[d]
               IN  /\ PyInt(e.quantity) > 0 =>
                          e.remaining = PyInt(e.quantity) - SumQty(FillsOf(d))
                   /\ (FailedFills(d) # <<>> /\ FillsOf(d) = <<>>) => e.reported

\* C13 as stated: in both processors the add-to-cart button is never clicked
\* twice for one item, and an item allocation that returns has clicked it
\* exactly once if anyAdded is true and not at all if anyAdded is false
Cex_C13_CommitOnce ==
    Ran =>
        /\ alloc.clicks <= 1
        /\ (~alloc.raised /\ ~alloc.commit_raised) =>
               alloc.clicks = (IF alloc.added_any THEN 1 ELSE 0)

\* the fills credited against demand that went to the cell at grid position p
FillsAt(p) == SelectSeq(alloc.fills, LAMBDA f : f.cell = p)

\* C14 as stated: within one allocation call every stock cell is filled at
\* most once, and the quantity credited from a cell never exceeds the stock
\* the cell shows
Cex_C14_CellOnce ==
    Ran =>
        \A r \in 1..Len(grid.rows) :
            \A c \in 1..Len(grid.labels) :
                /\ Len(FillsAt(<<r, c>>)) <= 1
                /\ SumQty(FillsAt(<<r, c>>)) <= grid.rows[r][c].avail

\* C15 as stated: every run of the SanMar allocator over the demand list and
\* the grid of this run picks the same pool keys, visits the same cells in
\* the same order and issues the same fills as this run
Cex_C15_Deterministic ==
    (Ran /\ alloc.vendor = "sanmar") =>
        \A pk \in size_key_choices(build_size_inputs_by_warehouse(grid), sizes) :
            LET other == add_requested_sizes(grid, pk, sizes)
            IN  /\ other.issued = alloc.issued
                /\ [d \in DOMAIN other.entries |-> other.entries[d].cells]
                       = [d \in DOMAIN alloc.entries |-> alloc.entries[d].cells]

(***************************************************************************)
(* Properties of the merge of extract_line_items                           *)
(***************************************************************************)
Merged == extracted.state = "returned"

\* the identity key of a scraped row: (trim(part), trim(color),
\* trim(store) or "Custom")
RowIdentity(dom) ==
    <<Strip(dom.part), Strip(dom.color),
      IF Strip(dom.store) = "" THEN "Custom" ELSE Strip(dom.store)>>

ItemIdentity(v) == <<v.part, v.color, v.store>>

\* the canonical size key of a scraped row
RowSizeKey(dom) == normalize_size_label(Strip(dom.size))

\* the rows of LineItem v whose size normalizes to k
RowsOf(v, k) ==
    {i \in DOMAIN dom_rows :
        RowIdentity(dom_rows[i]) = ItemIdentity(v) /\ RowSizeKey(dom_rows[i]) = k}

RECURSIVE SumRows(_)
SumRows(S) ==
    IF S = {} THEN 0
    ELSE LET i == CHOOSE x \in S : TRUE
         IN  dom_rows[i].quantity + SumRows(S \ {i})

\* C16: every emitted LineItem has at most one entry per canonical size key,
\* the quantity of an entry is the sum, rounded to 2 decimals, of the
\* quantities of all rows of the same (part, color, store) whose size
\* normalizes to that key, and every row is counted in such an entry.
Thm_C16_MergeAdditive ==
    Merged =>
        /\ \A n \in DOMAIN extracted.items :
               LET v == extracted.items[n]
               IN  /\ \A a, b \in DOMAIN v.sizes :
                          v.sizes[a].size = v.sizes[b].size => a = b
                   /\ \A a \in DOMAIN v.sizes :
                          /\ RowsOf(v, v.sizes[a].size) # {}
                          /\ v.sizes[a].quantity = Round2(SumRows(RowsOf(v, v.sizes[a].size)))
        /\ \A i \in DOMAIN dom_rows :
               \E n \in DOMAIN extracted.items :
                   /\ ItemIdentity(extracted.items[n]) = RowIdentity(dom_rows[i])
                   /\ \E a \in DOMAIN extracted.items[n].sizes :
                          extracted.items[n].sizes[a].size = RowSizeKey(dom_rows[i])

\* C16 witness: the rows SM = 2 and Small = 3 of one item give the single
\* entry S = 5
Wit_C16_SmallPlusSM ==
    /\ Merged
    /\ dom_rows = <<DomRow("PC54", "Red", "SanMar", "SM", 2000),
                    DomRow("PC54", "Red", "SanMar", "Small", 3000)>>
    /\ Len(extracted.items) = 1
    /\ extracted.items[1].sizes = <<[size |-> "S", quantity |-> 5000]>>
    /\ extracted.items[1].total_quantity = 5000

RECURSIVE SumSizes(_)
SumSizes(list) ==
    IF list = <<>> THEN 0 ELSE Head(list).quantity + SumSizes(Tail(list))

\* C17 as stated: the totalQuantity of every emitted LineItem equals the sum
\* of the quantities of its sizes list, both rounded to 2 decimals, whatever
\* the number of decimals of the row quantities
Cex_C17_TotalIsSum ==
    Merged =>
        \A n \in DOMAIN extracted.items :
            Round2(extracted.items[n].total_quantity)
                = Round2(SumSizes(extracted.items[n].sizes))

\* C18: the merge emits exactly one LineItem per identity key: no two
\* emitted LineItems have equal (part, color, store), and the emitted
\* identities are those of the rows, a row without store text counting as
\* store "Custom".
Thm_C18_OnePerIdentity ==
    Merged =>
        /\ \A a, b \in DOMAIN extracted.items :
               ItemIdentity(extracted.items[a]) = ItemIdentity(extracted.items[b]) => a = b
        /\ {ItemIdentity(extracted.items[a]) : a \in DOMAIN extracted.items}
               = {RowIdentity(dom_rows[i]) : i \in DOMAIN dom_rows}

\* C18 witness: a row with blank store text and a row with store "Custom"
\* end in one LineItem
Wit_C18_BlankAndCustom ==
    /\ Merged
    /\ \E i, j \in DOMAIN dom_rows :
           /\ dom_rows[i].store = " "
           /\ dom_rows[j].store = "Custom"
           /\ dom_rows[i].part = dom_rows[j].part
    /\ Len(extracted.items) = 1
    /\ extracted.items[1].store = "Custom"

\* the rank table of the claim
RankTable(size) ==
    CASE size = "XS" -> 1
      [] size = "S" -> 2
      [] size = "M" -> 3
      [] size = "L" -> 4
      [] size = "XL" -> 5
      [] size = "2XL" -> 6
      [] size = "3XL" -> 7
      [] size = "4XL" -> 8
      [] size = "ONE SIZE" -> 100
      [] size = "qty" -> 999
      [] OTHER -> 50

\* the first row of LineItem v with size key k
FirstRow(v, k) == CHOOSE i \in RowsOf(v, k) : \A j \in RowsOf(v, k) : i <= j

\* C19: the sizes of every emitted LineItem are in non-decreasing order of
\* the rank table, and entries of equal rank are in the order in which their
\* size key was first met in the rows.
Thm_C19_SizesSorted ==
    Merged =>
        \A n \in DOMAIN extracted.items :
            LET v == extracted.items[n]
            IN  \A a, b \in DOMAIN v.sizes :
                    a < b =>
                        /\ RankTable(v.sizes[a].size) <= RankTable(v.sizes[b].size)
                        /\ RankTable(v.sizes[a].size) = RankTable(v.sizes[b].size)
                               => FirstRow(v, v.sizes[a].size) < FirstRow(v, v.sizes[b].size)

\* C19 witness: two sizes of equal rank stay in row order behind a size of
\* lower rank that was met after them
Wit_C19_StableTie ==
    /\ Merged
    /\ \E n \in DOMAIN extracted.items :
           LET v == extracted.items[n]
           IN  \E a, b, c \in DOMAIN v.sizes :
                   /\ a < b /\ b < c
                   /\ RankTable(v.sizes[b].size) = RankTable(v.sizes[c].size)
                   /\ FirstRow(v, v.sizes[a].size) > FirstRow(v, v.sizes[c].size)

(***************************************************************************)
(* Properties of the semaphore sections                                    *)
(***************************************************************************)
\* task t is at `async with sem` and has no permit yet
Waiting(t) == task[t].pc \in {"waiting", "run_one", "fetch_one"}

\* task t is inside the block of `async with sem`
Inside(t) ==
    task[t].pc \in {"running", "run_one_in", "run_one_page", "fetch_one_in", "fetch_one_page"}

\* task t has left the block
Left(t) == task[t].pc \in {"done", "raised"}

\* C20: in every interleaving of the tasks of add_to_cart, of
\* clean_not_order_yet_tags and of get_so_details_parallel, at most
\* max_concurrency tasks are inside the semaphore block, the free permits
\* are max_concurrency minus the tasks inside (a permit comes back on normal
\* and on exceptional exit), and every task that waits for a permit
\* eventually enters the block.
Thm_C20_Semaphore ==
    /\ [](/\ Cardinality({t \in Tasks : Inside(t)}) <= call.max_concurrency
          /\ sem = call.max_concurrency - Cardinality({t \in Tasks : Inside(t)}))
    /\ \A t \in 1..MaxTasks :
           (t \in Tasks /\ Waiting(t)) ~> (t \in Tasks /\ Inside(t))

\* C20 witness: more tasks than permits, and a permit that a task gave back
\* by an exception is in use again, no permit being free
Wit_C20_ReusedAfterRaise ==
    /\ Cardinality(Tasks) > call.max_concurrency
    /\ sem = 0
    /\ \E t \in Tasks : task[t].pc = "raised"
    /\ Cardinality({t \in Tasks : Inside(t) \/ Left(t)}) > call.max_concurrency

(***************************************************************************)
(* Pages of the tasks                                                      *)
(***************************************************************************)
\* the page objects task t has issued an operation on: t stands for the
\* page the task opened, 0 for the page of the caller
PagesUsed(t) == {IF o = "own" THEN t ELSE 0 : o \in task[t].ops}

\* C21 as stated: a task of add_to_cart, clean_not_order_yet_tags or
\* get_so_details_parallel issues page operations on the page it opened
\* only, and no two tasks issue an operation on the same page
Cex_C21_OwnPageOnly ==
    /\ \A t \in Tasks : PagesUsed(t) \subseteq {t}
    /\ \A t, u \in Tasks : t # u => PagesUsed(t) \cap PagesUsed(u) = {}

\* C22 as stated: a page a task has opened is closed later, on every path
\* of the task, those that end with an exception included
Cex_C22_PagesClosed ==
    \A t \in 1..MaxTasks :
        (t \in Tasks /\ task[t].page = "open") ~> (t \in Tasks /\ task[t].page = "closed")

\* C23 as stated: add_to_cart ends by returning one result per order of the
\* request, also when the processing of an order threw; it never ends with
\* the exception
Cex_C23_OneResultPerOrder ==
    (call.fn = "add_to_cart" /\ call.state # "running") =>
        /\ call.state = "returned"
        /\ DOMAIN call.result = DOMAIN orders
        /\ \A t \in DOMAIN call.result : call.result[t].order_id = orders[t].id

\* the place of a part in an item list
PartIndex(list, part) == CHOOSE i \in DOMAIN list : list[i].part = part

\* C25 as stated: the processor calls of one order come vendor by vendor in
\* descending order of the vendor key (so the calls of one vendor are
\* contiguous), and the calls of one vendor come in the order the request
\* lists their items
Cex_C25_GroupedStable ==
    \A t \in Tasks :
        \A i, j \in DOMAIN task[t].calls :
            i < j =>
                LET a == task[t].calls[i]
                    b == task[t].calls[j]
                IN  /\ StoreRank(normalize_store(a.store)) >= StoreRank(normalize_store(b.store))
                    /\ normalize_store(a.store) = normalize_store(b.store) =>
                           PartIndex(orders[t].request, a.part)
                               < PartIndex(orders[t].request, b.part)

\* C27 as stated: during add_to_cart the pages the order tasks have opened
\* and not closed are never more than max_concurrency
Cex_C27_OpenPagesBounded ==
    call.fn = "add_to_cart" =>
        Cardinality({t \in Tasks : task[t].page = "open"}) <= call.max_concurrency

(***************************************************************************)
(* The two allocators on the same demand and grid                          *)
(***************************************************************************)
\* the (cell, quantity) pairs of a sequence of fill calls
CellQty(calls) == [i \in DOMAIN calls |-> <<calls[i].cell, calls[i].qty>>]

\* the demand list and the grid of this run are as C28 takes them: whole
\* quantities above 0, every label the text of a size column, every cell
\* with an enabled input whose fill returns
PlainInputs ==
    /\ \A d \in DOMAIN sizes :
           /\ ~sizes[d].quantity.half /\ sizes[d].quantity.whole > 0
           /\ InSeq(get_size_order(grid.labels), sizes[d].size)
    /\ \A r \in 1..Len(grid.rows) :
           \A c \in 1..Len(grid.labels) : FillReturns(grid.rows[r][c])

\* C28 as stated: on such inputs the SanMar run issues the fills the S&S
\* allocator issues on them, in the same order, and returns the same
\* (added_any, oos_sizes)
Cex_C28_SameAllocation ==
    (Ran /\ alloc.vendor = "sanmar" /\ PlainInputs) =>
        LET other == fill_sizes_across_warehouses(grid, sizes)
        IN  /\ CellQty(alloc.issued) = CellQty(other.issued)
            /\ alloc.added_any = other.added_any
            /\ alloc.oos = other.oos

(***************************************************************************)
(* The row-materialization loops                                           *)
(***************************************************************************)
\* the last three counts the loop has read are one and the same
LastThreeEqual(r) ==
    /\ Len(r) >= 3
    /\ r[Len(r)] = r[Len(r) - 1]
    /\ r[Len(r) - 1] = r[Len(r) - 2]

\* C24: the loop of get_sales_orders_urls is left by its break only when
\* the count it read was unchanged in the last 2 polls (equal to the count
\* of the poll before), and it ends in every run, the page changing its
\* rows finitely often; the loop of extract_line_items makes at most 8
\* polls
Thm_C24_Polling ==
    /\ [](poll.fn = "get_sales_orders_urls" /\ poll.pc = "exited"
              => LastThreeEqual(poll.readings) /\ poll.stable = 2)
    /\ [](poll.fn = "extract_line_items" => poll.polls <= 8)
    /\ (poll.fn = "get_sales_orders_urls") ~> (poll.pc \in {"exited", "raised"})

\* the loop of get_sales_orders_urls left after more polls than the other
\* loop can make
Wit_C24_MoreThanEight ==
    /\ poll.fn = "get_sales_orders_urls"
    /\ poll.pc = "exited"
    /\ poll.polls > 8
    /\ poll.changes = MaxChanges

(***************************************************************************)
(* The shared context                                                      *)
(***************************************************************************)
InFlight(pc) == {c \in Callers : boot.callers[c].pc = pc}

\* every get_ctx call that has returned got the one context there is
SameContext ==
    \A c \in Callers :
        (boot.callers[c].fn = "get_ctx" /\ boot.callers[c].pc = "returned")
            => /\ boot.callers[c].got # NoObject
               /\ boot.callers[c].got = boot.ctx

\* C26 as stated: start() and launch_persistent_context are each called at
\* most once, and every get_ctx call gets the same context
Cex_C26_CalledOnce ==
    /\ boot.starts <= 1
    /\ boot.launches <= 1
    /\ SameContext

\* C26, amended: under every interleaving start() and
\* launch_persistent_context each return at most once and are never called
\* while a call of them is pending; either is called again only after every
\* call of it so far raised; every get_ctx call that returns gets the same
\* context
Thm_C26_OneContext ==
    /\ boot.ok_starts <= 1
    /\ boot.ok_launches <= 1
    /\ Cardinality(InFlight("starting") \cup InFlight("launching")) <= 1
    /\ boot.starts <= boot.failed_starts + 1
    /\ boot.launches <= boot.failed_launches + 1
    /\ SameContext

\* two get_ctx calls that both found _ctx unset have returned, after one
\* start and one launch
Wit_C26_TwoEarlyCallers ==
    /\ \E c, d \in Callers :
           /\ c # d
           /\ \A e \in {c, d} :
                  /\ boot.callers[e].fn = "get_ctx"
                  /\ boot.callers[e].saw_none
                  /\ boot.callers[e].pc = "returned"
    /\ boot.starts = 1
    /\ boot.launches = 1

(***************************************************************************)
(* Size keys of size keys                                                  *)
(***************************************************************************)
\* C29 as stated: _normalize_size_label applied to a key it returned gives
\* that key again, for every label
Cex_C29_Idempotent ==
    size_keys.state = "remerged" => size_keys.again = size_keys.keys

(***************************************************************************)
(* The answer of GET /to-order                                             *)
(***************************************************************************)
\* C30 as stated: GET /to-order answers 200 only for a fetched list of at
\* least one sales order, and never answers 200 for an error value
Cex_C30_ErrorNot200 ==
    (http.endpoint = "/to-order" /\ http.pc = "responded") =>
        /\ http.status = 200 =>
               (http.result.kind = "list" /\ Len(http.result.sos) >= 1)
        /\ is_dict(http.result) => http.status # 200
====
